---- MODULE Spec2Model ----
(***************************************************************************)
(* Model of src/homework-2/main.py: the statistics functions               *)
(* calculate_mean, std_dev, pooled_std_dev, t_test, anova and rmanova, and *)
(* a caller that constructs their arguments, calls them and discards the   *)
(* arguments afterwards.                                                   *)
(*                                                                         *)
(* Numbers.  The functions compute with Python floats.  The model computes *)
(* exactly: a number is a record [p, q, r] standing for (p/q) * sqrt(r),   *)
(* q > 0, gcd(p, q) = 1, r a square-free integer, r = 1 for a rational and *)
(* r < 0 for the imaginary number Python's ** 0.5 gives on a negative      *)
(* float.  Zero is [p |-> 0, q |-> 1, r |-> 1].  Equality of two results   *)
(* "within tolerance" is equality of these exact values.                   *)
(*                                                                         *)
(* Outcomes.  What a call produces is a record with a field kind:          *)
(*   "value"  a number (field v)                                           *)
(*   "list"   a list of numbers (field items)                              *)
(*   "pair"   the tuple (statistic, p_value) (fields stat, p)              *)
(*   "error"  a returned error string (field msg)                          *)
(*   "raise"  an exception leaving the function (field exc)                *)
(***************************************************************************)
EXTENDS Integers, Sequences, FiniteSets, TLC

VARIABLES pc, op, args, result

vars == <<pc, op, args, result>>

(***************************************************************************)
(* Bounds of the model.                                                    *)
(***************************************************************************)
\* sample values are 0..MaxVal
MaxVal == 2
\* a raw sample holds at most MaxLen values
MaxLen == 2
\* n of a (sigma, n) pair is 0..MaxN
MaxN == 3
\* pooled_std_dev is given at most MaxPairs pairs
MaxPairs == 3
\* anova is given at most MaxGroups groups
MaxGroups == 3
\* an anova group holds at most MaxGroupLen values
MaxGroupLen == 2
\* rmanova is given at most MaxRows rows
MaxRows == 2
\* rmanova is given rows of at most MaxCols columns
MaxCols == 2

(***************************************************************************)
(* Exact arithmetic on numbers (p/q) * sqrt(r).                            *)
(***************************************************************************)
AbsInt(k) == IF k < 0 THEN -k ELSE k

RECURSIVE Gcd(_, _)
Gcd(a, b) == IF b = 0 THEN a ELSE Gcd(b, a % b)

\* the canonical record of (p/q) * sqrt(r), for q # 0
Norm(p, q, r) ==
    IF p = 0 THEN [p |-> 0, q |-> 1, r |-> 1]
    ELSE LET g == Gcd(AbsInt(p), AbsInt(q))
             s == IF q < 0 THEN -1 ELSE 1
         IN  [p |-> s * (p \div g), q |-> s * (q \div g), r |-> r]

Rat(p, q) == Norm(p, q, 1)
Num(k) == Rat(k, 1)
Zero == Num(0)
One == Num(1)
Half == Rat(1, 2)

IsZero(x) == x.p = 0
IsRat(x) == x.r = 1
IsReal(x) == x.r > 0
Neg(x) == [x EXCEPT !.p = -x.p]
Abs(x) == [x EXCEPT !.p = AbsInt(x.p)]

\* x + y; a sum of two numbers over different square roots is no number of
\* the model: it has no value, and no argument the caller constructs leads to one
Add(x, y) ==
    IF IsZero(x) THEN y
    ELSE IF IsZero(y) THEN x
    ELSE IF x.r = y.r THEN Norm(x.p * y.q + y.p * x.q, x.q * y.q, x.r)
    ELSE CHOOSE z \in {} : TRUE

Sub(x, y) == Add(x, Neg(y))

Mul(x, y) ==
    LET a == AbsInt(x.r)
        b == AbsInt(y.r)
        g == Gcd(a, b)
        bothImag == x.r < 0 /\ y.r < 0
        oneImag == (x.r < 0) # (y.r < 0)
        sgn == IF bothImag THEN -1 ELSE 1
        rad == (a \div g) * (b \div g)
    IN  Norm(sgn * x.p * y.p * g, x.q * y.q, IF oneImag THEN -rad ELSE rad)

\* x / y for y # 0:  1 / ((p/q) sqrt(r)) = (q / (p r)) sqrt(r)
Div(x, y) == Mul(x, Norm(y.q, y.p * y.r, y.r))

Sq(x) == Mul(x, x)

\* the largest k with k * k dividing n, for n >= 1
RECURSIVE SquarePart(_, _, _)
SquarePart(n, k, best) ==
    IF k * k > n THEN best
    ELSE SquarePart(n, k + 1, IF n % (k * k) = 0 THEN k ELSE best)

\* x ** 0.5 for a rational x = p/q in lowest terms: with p = a * a * u and
\* q = b * b * v, u and v square-free, sqrt(p/q) = (a / (b * v)) * sqrt(u * v);
\* on a negative float Python returns the complex root, here the imaginary
\* number i * sqrt(-x)
Pow05(x) ==
    IF IsZero(x) THEN Zero
    ELSE LET p == AbsInt(x.p)
             a == SquarePart(p, 1, 1)
             b == SquarePart(x.q, 1, 1)
             u == p \div (a * a)
             v == x.q \div (b * b)
         IN  Norm(a, b * v, IF x.p < 0 THEN -(u * v) ELSE u * v)

(***************************************************************************)
(* Outcomes.                                                               *)
(***************************************************************************)
Value(x) == [kind |-> "value", v |-> x]
Raise(e) == [kind |-> "raise", exc |-> e]
Error(m) == [kind |-> "error", msg |-> m]

RECURSIVE SumSeq(_)
SumSeq(s) == IF s = <<>> THEN Zero ELSE Add(Head(s), SumSeq(Tail(s)))

\* sum((x - c) ** 2 for x in s)
RECURSIVE SumSqDiff(_, _)
SumSqDiff(s, c) ==
    IF s = <<>> THEN Zero
    ELSE Add(Sq(Sub(Head(s), c)), SumSqDiff(Tail(s), c))

(***************************************************************************)
(* calculate_mean.  data is [nested, items]: nested says that data[0] is   *)
(* itself a list, and then items is a list of lists.                       *)
(***************************************************************************)
\* sum of 1.0 / x over s, for s without a zero
RECURSIVE SumReciprocal(_)
SumReciprocal(s) ==
    IF s = <<>> THEN Zero ELSE Add(Div(One, Head(s)), SumReciprocal(Tail(s)))

RECURSIVE calculate_mean(_, _)
calculate_mean(data, use_harmonic) ==
    IF data.nested /\ data.items # <<>>
    THEN LET results == [i \in 1..Len(data.items) |->
                 calculate_mean([nested |-> FALSE, items |-> data.items[i]],
                                use_harmonic)]
         IN  IF \E i \in 1..Len(results) : results[i].kind = "raise"
             THEN results[CHOOSE i \in 1..Len(results) :
                      /\ results[i].kind = "raise"
                      /\ \A j \in 1..(i - 1) : results[j].kind # "raise"]
             ELSE [kind |-> "list",
                   items |-> [i \in 1..Len(results) |-> results[i].v]]
    ELSE LET n == Len(data.items)
         IN  IF n = 0 THEN Value(Zero)
             ELSE IF use_harmonic
             THEN IF \E i \in 1..n : IsZero(data.items[i])
                  THEN Value(Zero)
                  ELSE LET total_reciprocal == SumReciprocal(data.items)
                       IN  IF IsZero(total_reciprocal)
                           THEN Raise("ZeroDivisionError")
                           ELSE Value(Div(Num(n), total_reciprocal))
             ELSE Value(Div(SumSeq(data.items), Num(n)))

Flat(items) == [nested |-> FALSE, items |-> items]

(***************************************************************************)
(* std_dev: the population standard deviation of a list.                   *)
(***************************************************************************)
std_dev(data) ==
    LET n == Len(data)
    IN  IF n = 0 THEN Value(Zero)
        ELSE LET mean == Div(SumSeq(data), Num(n))
                 sq_diff == SumSqDiff(data, mean)
             IN  Value(Pow05(Div(sq_diff, Num(n))))

(***************************************************************************)
(* pooled_std_dev over a list of pairs <<sigma, n>>.                       *)
(***************************************************************************)
\* numerator after the loop: the sum of (n - 1) * sigma ** 2
RECURSIVE PooledNumerator(_)
PooledNumerator(data_pairs) ==
    IF data_pairs = <<>> THEN Zero
    ELSE LET sigma == Head(data_pairs)[1]
             n == Head(data_pairs)[2]
         IN  Add(Mul(Sub(n, One), Sq(sigma)), PooledNumerator(Tail(data_pairs)))

\* a denominator that sums n where n - 1 is meant
RECURSIVE PooledDenominator_sum_of_n(_)
PooledDenominator_sum_of_n(data_pairs) ==
    IF data_pairs = <<>> THEN Zero
    ELSE Add(Head(data_pairs)[2], PooledDenominator_sum_of_n(Tail(data_pairs)))

\* denominator after the loop: the sum of n - 1
RECURSIVE PooledDenominator(_)
PooledDenominator(data_pairs) ==
    IF data_pairs = <<>> THEN Zero
    ELSE Add(Sub(Head(data_pairs)[2], One), PooledDenominator(Tail(data_pairs)))

PooledMinPairs == 2

pooled_std_dev(data_pairs) ==
    LET k == Len(data_pairs)
    IN  IF k < PooledMinPairs
        THEN Error("error: need at least two pairings to pool")
        ELSE LET numerator == PooledNumerator(data_pairs)
                 denominator == PooledDenominator(data_pairs)
             IN  IF IsZero(denominator) THEN Value(Zero)
                 ELSE Value(Pow05(Div(numerator, denominator)))

(***************************************************************************)
(* scipy.stats, as far as its values are fixed without evaluating the      *)
(* distribution: a cdf is nan for degrees of freedom that are not          *)
(* positive, t.cdf(0, df) is 1/2, f.cdf(x, d1, d2) is 0 for x <= 0, and    *)
(* every other value is kept as the unevaluated term.                      *)
(***************************************************************************)
PNan == [kind |-> "nan"]
PNum(x) == [kind |-> "num", v |-> x]

stats_t_cdf(x, df) ==
    IF df.p <= 0 THEN PNan
    ELSE IF IsZero(x) THEN PNum(Half)
    ELSE [kind |-> "cdf", dist |-> "t", x |-> x, df |-> <<df>>]

stats_f_cdf(x, dfn, dfd) ==
    IF dfn.p <= 0 \/ dfd.p <= 0 THEN PNan
    ELSE IF x.p <= 0 THEN PNum(Zero)
    ELSE [kind |-> "cdf", dist |-> "f", x |-> x, df |-> <<dfn, dfd>>]

\* 1 - c
UpperTail(c) ==
    IF c.kind = "num" THEN PNum(Sub(One, c.v))
    ELSE IF c.kind = "nan" THEN PNan
    ELSE [kind |-> "1-cdf", of |-> c]

\* a one-tailed p-value where the two-tailed one is meant
TwoTailed_one_tailed(c) == UpperTail(c)

\* 2 * (1 - c)
TwoTailed(c) ==
    IF c.kind = "num" THEN PNum(Mul(Num(2), Sub(One, c.v)))
    ELSE IF c.kind = "nan" THEN PNan
    ELSE [kind |-> "2*(1-cdf)", of |-> c]

Pair(stat, p) == [kind |-> "pair", stat |-> stat, p |-> p]

(***************************************************************************)
(* t_test.  A side is [elems, head_native]: elems is the list or tuple     *)
(* passed, head_native says that its first element is a Python int or      *)
(* float (isinstance(data[0], (int, float))); a (mu, sigma, n) triple      *)
(* whose mean is of another numeric type has head_native = FALSE.          *)
(***************************************************************************)
\* one pass of the loop over [data1, data2]: the entry appended to params
t_test_params(data, use_harmonic) ==
    IF data.elems = <<>> THEN Raise("IndexError")
    ELSE IF ~data.head_native THEN [kind |-> "params", t |-> data.elems]
    ELSE LET mu == calculate_mean(Flat(data.elems), use_harmonic)
             sigma == std_dev(data.elems)
             n == Len(data.elems)
         IN  IF mu.kind = "raise" THEN mu
             ELSE [kind |-> "params", t |-> <<mu.v, sigma.v, Num(n)>>]

TripleLen == 3

\* the statements after the loop, from the unpacking of params on
t_test_compute(params1, params2) ==
    IF Len(params1) # TripleLen \/ Len(params2) # TripleLen
    THEN Raise("ValueError")
    ELSE
    LET mu1 == params1[1]
        sigma1 == params1[2]
        n1 == params1[3]
        mu2 == params2[1]
        sigma2 == params2[2]
        n2 == params2[3]
        sigma_p == pooled_std_dev(<<<<sigma1, n1>>, <<sigma2, n2>>>>)
    IN  IF IsZero(n1) \/ IsZero(n2) THEN Raise("ZeroDivisionError")
        ELSE IF sigma_p.kind # "value" THEN Raise("TypeError")
        ELSE
        LET standard_error ==
                Mul(sigma_p.v, Pow05(Add(Div(One, n1), Div(One, n2))))
        IN  IF IsZero(standard_error) THEN Raise("ZeroDivisionError")
            ELSE
            LET t_value == Div(Sub(mu1, mu2), standard_error)
                degees_freedom == Sub(Add(n1, n2), Num(2))
                p_value == TwoTailed(stats_t_cdf(Abs(t_value), degees_freedom))
            IN  Pair(t_value, p_value)

t_test(data1, data2, use_harmonic) ==
    LET e1 == t_test_params(data1, use_harmonic)
    IN  IF e1.kind = "raise" THEN e1
        ELSE LET e2 == t_test_params(data2, use_harmonic)
             IN  IF e2.kind = "raise" THEN e2
                 ELSE t_test_compute(e1.t, e2.t)

(***************************************************************************)
(* anova over a list of groups, each a list of numbers.                    *)
(***************************************************************************)
\* [item for sublist in datasets for item in sublist]
RECURSIVE Flatten(_)
Flatten(datasets) ==
    IF datasets = <<>> THEN <<>> ELSE Head(datasets) \o Flatten(Tail(datasets))

\* sum_squares_between after the loop over the groups
RECURSIVE anova_sum_squares_between(_, _)
anova_sum_squares_between(datasets, overall_mean) ==
    IF datasets = <<>> THEN Zero
    ELSE LET data == Head(datasets)
             n_j == Len(data)
             group_mean == calculate_mean(Flat(data), FALSE).v
         IN  Add(Mul(Num(n_j), Sq(Sub(group_mean, overall_mean))),
                 anova_sum_squares_between(Tail(datasets), overall_mean))

\* a guard that is off by one: two groups pass
AnovaMinGroups_off_by_one == 3 - 1

AnovaMinGroups == 3

anova(datasets) ==
    LET m == Len(datasets)
    IN  IF m < AnovaMinGroups
        THEN Error("error: anova requires at least 3 datasets")
        ELSE
        LET all_observations == Flatten(datasets)
            N == Len(all_observations)
            overall_mean == calculate_mean(Flat(all_observations), FALSE).v
            sum_squares_total == SumSqDiff(all_observations, overall_mean)
            sum_squares_between == anova_sum_squares_between(datasets, overall_mean)
            sum_squares_within == Sub(sum_squares_total, sum_squares_between)
            degrees_freedom_between == m - 1
            degrees_freedom_within == N - m
        IN  IF degrees_freedom_between = 0 \/ degrees_freedom_within = 0
            THEN Raise("ZeroDivisionError")
            ELSE
            LET mean_squares_between ==
                    Div(sum_squares_between, Num(degrees_freedom_between))
                mean_squares_within ==
                    Div(sum_squares_within, Num(degrees_freedom_within))
            IN  IF IsZero(mean_squares_within) THEN Raise("ZeroDivisionError")
                ELSE
                LET f_stat == Div(mean_squares_between, mean_squares_within)
                    p_value == UpperTail(stats_f_cdf(f_stat,
                                   Num(degrees_freedom_between),
                                   Num(degrees_freedom_within)))
                IN  Pair(f_stat, p_value)

(***************************************************************************)
(* rmanova.  The argument is [frame, rows]: frame says that it is a pandas *)
(* DataFrame, rows is the list of its rows; a cell is a number or Null, a  *)
(* missing value, which only a DataFrame holds.                            *)
(***************************************************************************)
Null == [null |-> TRUE]

HasNull(rows) ==
    \E i \in 1..Len(rows) : \E j \in 1..Len(rows[i]) : rows[i][j] = Null

\* the rows after fillna(0)
FillNa(rows) ==
    [i \in 1..Len(rows) |->
        [j \in 1..Len(rows[i]) |-> IF rows[i][j] = Null THEN Zero ELSE rows[i][j]]]

\* what the caller's object holds once rmanova has converted it
rmanova_caller_data(datasets) ==
    IF datasets.frame /\ HasNull(datasets.rows)
    THEN [datasets EXCEPT !.rows = FillNa(datasets.rows)]
    ELSE datasets

\* the list of lists rmanova computes on
rmanova_rows(datasets) == rmanova_caller_data(datasets).rows

\* sum_squares_subjects after the loop over the rows
RECURSIVE rmanova_sum_squares_subjects(_, _, _)
rmanova_sum_squares_subjects(rows, num_columns, all_values_mean) ==
    IF rows = <<>> THEN Zero
    ELSE LET data_mean == calculate_mean(Flat(Head(rows)), FALSE).v
         IN  Add(Mul(Num(num_columns), Sq(Sub(data_mean, all_values_mean))),
                 rmanova_sum_squares_subjects(Tail(rows), num_columns,
                                              all_values_mean))

\* sum_squares_conditions after the loop over the columns column..num_columns
RECURSIVE rmanova_sum_squares_conditions(_, _, _, _)
rmanova_sum_squares_conditions(rows, column, num_columns, all_values_mean) ==
    IF column > num_columns THEN Zero
    ELSE LET num_rows == Len(rows)
             column_data == [row \in 1..num_rows |-> rows[row][column]]
             column_mean == calculate_mean(Flat(column_data), FALSE).v
         IN  Add(Mul(Num(num_rows), Sq(Sub(column_mean, all_values_mean))),
                 rmanova_sum_squares_conditions(rows, column + 1, num_columns,
                                                all_values_mean))

\* a slip that forgets to take the subjects' share out of the error term
rmanova_sum_squares_error_without_subjects(total, conditions, subjects) ==
    Sub(total, conditions)

\* sum_squares_total - sum_squares_conditions - sum_squares_subjects
rmanova_sum_squares_error(total, conditions, subjects) ==
    Sub(Sub(total, conditions), subjects)

\* the local variables of rmanova before the mean squares are taken, for a
\* matrix with at least one row
rmanova_locals(rows) ==
    LET num_rows == Len(rows)
        num_columns == Len(rows[1])
        all_values == Flatten(rows)
        all_values_mean == calculate_mean(Flat(all_values), FALSE).v
        sum_squares_subjects ==
            rmanova_sum_squares_subjects(rows, num_columns, all_values_mean)
        sum_squares_conditions ==
            rmanova_sum_squares_conditions(rows, 1, num_columns, all_values_mean)
        sum_squares_total == SumSqDiff(all_values, all_values_mean)
    IN  [num_rows |-> num_rows,
         num_columns |-> num_columns,
         sum_squares_subjects |-> sum_squares_subjects,
         sum_squares_conditions |-> sum_squares_conditions,
         sum_squares_total |-> sum_squares_total,
         sum_squares_error |->
             rmanova_sum_squares_error(sum_squares_total, sum_squares_conditions,
                                       sum_squares_subjects),
         degrees_freedom_conditions |-> num_columns - 1,
         degrees_freedom_error |-> (num_columns - 1) * (num_rows - 1)]

rmanova(datasets) ==
    LET rows == rmanova_rows(datasets)
    IN  IF rows = <<>> THEN Raise("IndexError")
        ELSE
        LET l == rmanova_locals(rows)
        IN  IF l.degrees_freedom_conditions = 0 \/ l.degrees_freedom_error = 0
            THEN Raise("ZeroDivisionError")
            ELSE
            LET mean_squares_conditions ==
                    Div(l.sum_squares_conditions, Num(l.degrees_freedom_conditions))
                mean_squares_error ==
                    Div(l.sum_squares_error, Num(l.degrees_freedom_error))
            IN  IF IsZero(mean_squares_error) THEN Raise("ZeroDivisionError")
                ELSE
                LET f_stat == Div(mean_squares_conditions, mean_squares_error)
                    p_value == UpperTail(stats_f_cdf(f_stat,
                                   Num(l.degrees_freedom_conditions),
                                   Num(l.degrees_freedom_error)))
                IN  Pair(f_stat, p_value)

(***************************************************************************)
(* The arguments a caller constructs.                                      *)
(***************************************************************************)
SeqsUpTo(S, n) == UNION {[1..k -> S] : k \in 0..n}

Vals == {Num(k) : k \in 0..MaxVal}
Samples == SeqsUpTo(Vals, MaxLen)

\* (mu, sigma, n) triples, n = 0 included
TripleMeans == {Zero, One}
TripleSigmas == {Zero, One}
TripleSizes == {Zero, One, Num(2)}
Triples ==
    {<<mu, sigma, n>> : mu \in TripleMeans, sigma \in TripleSigmas, n \in TripleSizes}

Sides ==
    {[elems |-> s, head_native |-> TRUE] : s \in Samples}
    \cup {[elems |-> t, head_native |-> b] : t \in Triples, b \in BOOLEAN}

PairSigmas == {Zero, Num(2)}
SigmaNPairs == {<<sigma, Num(n)>> : sigma \in PairSigmas, n \in 0..MaxN}
PairLists == SeqsUpTo(SigmaNPairs, MaxPairs)

GroupVals == {Zero, One}
Groups == SeqsUpTo(GroupVals, MaxGroupLen)
GroupLists == SeqsUpTo(Groups, MaxGroups)

Matrices(cells) ==
    UNION {[1..R -> [1..C -> cells]] : R \in 0..MaxRows, C \in 0..MaxCols}

RmanovaInputs ==
    {[frame |-> FALSE, rows |-> m] : m \in Matrices(GroupVals)}
    \cup {[frame |-> TRUE, rows |-> m] : m \in Matrices(GroupVals \cup {Null})}

MeanInputs ==
    {[nested |-> FALSE, items |-> s] : s \in Samples}
    \cup {[nested |-> TRUE, items |-> g] : g \in GroupLists \ {<<>>}}

NoArgs == [none |-> TRUE]
NoResult == [kind |-> "none"]

(***************************************************************************)
(* The caller: it constructs the arguments of one call (pc = "ready"),     *)
(* the function runs (pc = "returned"), and the caller discards arguments  *)
(* and result (pc = "idle").                                               *)
(***************************************************************************)
Init ==
    /\ pc = "idle"
    /\ op = "none"
    /\ args = NoArgs
    /\ result = NoResult

Construct(f, a) ==
    /\ pc' = "ready"
    /\ op' = f
    /\ args' = a
    /\ result' = NoResult

Return(f, r) ==
    /\ pc = "ready"
    /\ op = f
    /\ pc' = "returned"
    /\ result' = r
    /\ UNCHANGED op

Construct_calculate_mean ==
    /\ pc = "idle"
    /\ \E d \in MeanInputs, h \in BOOLEAN :
           Construct("calculate_mean", [data |-> d, use_harmonic |-> h])

Call_calculate_mean ==
    /\ Return("calculate_mean", calculate_mean(args.data, args.use_harmonic))
    /\ UNCHANGED args

Construct_std_dev ==
    /\ pc = "idle"
    /\ \E d \in Samples : Construct("std_dev", [data |-> d])

Call_std_dev ==
    /\ Return("std_dev", std_dev(args.data))
    /\ UNCHANGED args

Construct_pooled_std_dev ==
    /\ pc = "idle"
    /\ \E ps \in PairLists : Construct("pooled_std_dev", [data_pairs |-> ps])

Call_pooled_std_dev ==
    /\ Return("pooled_std_dev", pooled_std_dev(args.data_pairs))
    /\ UNCHANGED args

Construct_t_test ==
    /\ pc = "idle"
    /\ \E d1 \in Sides, d2 \in Sides, h \in BOOLEAN :
           Construct("t_test", [data1 |-> d1, data2 |-> d2, use_harmonic |-> h])

Call_t_test ==
    /\ Return("t_test", t_test(args.data1, args.data2, args.use_harmonic))
    /\ UNCHANGED args

Construct_anova ==
    /\ pc = "idle"
    /\ \E g \in GroupLists : Construct("anova", [datasets |-> g])

Call_anova ==
    /\ Return("anova", anova(args.datasets))
    /\ UNCHANGED args

Construct_rmanova ==
    /\ pc = "idle"
    /\ \E m \in RmanovaInputs : Construct("rmanova", [datasets |-> m])

\* fillna(0, inplace=True) acts on the caller's DataFrame
Call_rmanova ==
    /\ Return("rmanova", rmanova(args.datasets))
    /\ args' = [datasets |-> rmanova_caller_data(args.datasets)]

Discard ==
    /\ pc = "returned"
    /\ pc' = "idle"
    /\ op' = "none"
    /\ args' = NoArgs
    /\ result' = NoResult

Next ==
    \/ Construct_calculate_mean
    \/ Call_calculate_mean
    \/ Construct_std_dev
    \/ Call_std_dev
    \/ Construct_pooled_std_dev
    \/ Call_pooled_std_dev
    \/ Construct_t_test
    \/ Call_t_test
    \/ Construct_anova
    \/ Call_anova
    \/ Construct_rmanova
    \/ Call_rmanova
    \/ Discard

Spec == Init /\ [][Next]_vars

\* one function called alone
Next_pooled_std_dev ==
    Construct_pooled_std_dev \/ Call_pooled_std_dev \/ Discard

Spec_pooled_std_dev == Init /\ [][Next_pooled_std_dev]_vars

Next_t_test == Construct_t_test \/ Call_t_test \/ Discard

Spec_t_test == Init /\ [][Next_t_test]_vars

Next_anova == Construct_anova \/ Call_anova \/ Discard

Spec_anova == Init /\ [][Next_anova]_vars

Next_rmanova == Construct_rmanova \/ Call_rmanova \/ Discard

Spec_rmanova == Init /\ [][Next_rmanova]_vars

(***************************************************************************)
(* Properties.                                                             *)
(***************************************************************************)
Returned(f) == pc = "returned" /\ op = f

\* a side passed as raw data: a non-empty list of Python numbers
RawSide(side) == side.head_native /\ side.elems # <<>>

AllEqual(s) == \A i \in 1..Len(s) : s[i] = s[1]

\* the side (mean(A), populationStdDev(A), len(A)) computed from a raw sample
SummaryTriple(sample) ==
    [elems |-> <<calculate_mean(Flat(sample), FALSE).v, std_dev(sample).v,
                 Num(Len(sample))>>,
     head_native |-> TRUE]

\* C1: when t_test on raw A and raw B returns (t, p), t_test on the summary
\* triple of A and on raw B returns the same t statistic (A with a rational
\* standard deviation, arithmetic mean).
C1_RoundTrip ==
    (/\ Returned("t_test")
     /\ ~args.use_harmonic
     /\ RawSide(args.data1)
     /\ RawSide(args.data2)
     /\ IsRat(std_dev(args.data1.elems).v)
     /\ result.kind = "pair")
    => LET viaTriple == t_test(SummaryTriple(args.data1.elems), args.data2, FALSE)
       IN  /\ viaTriple.kind = "pair"
           /\ viaTriple.stat = result.stat

\* a side of size n < 1: an empty raw sample, or a (mu, sigma, n) triple that
\* is consumed as a triple and has n = 0
EmptySide(side) ==
    \/ side.elems = <<>>
    \/ ~side.head_native /\ IsZero(side.elems[3])

\* C2: whenever a side of t_test has size n < 1, t_test returns an error
\* marker: it returns no (t, p) pair and raises no exception.
C2_InvalidParameter ==
    (Returned("t_test") /\ (EmptySide(args.data1) \/ EmptySide(args.data2)))
    => result.kind = "error"

C4_InsufficientGroups ==
    (Returned("anova") /\ Len(args.datasets) < 3)
    => /\ result = Error("error: anova requires at least 3 datasets")
       /\ result.kind # "pair"

C4_Witness ==
    /\ Returned("anova")
    /\ Len(args.datasets) = 2
    /\ Flatten(args.datasets) # <<>>
    /\ result.kind = "error"

\* C5: anova called with m >= 3 groups of N observations in total, N - m <= 0,
\* returns an error marker: no (F, p) pair and no exception.
C5_InvalidParameter ==
    (/\ Returned("anova")
     /\ Len(args.datasets) >= 3
     /\ Len(Flatten(args.datasets)) - Len(args.datasets) <= 0)
    => result.kind = "error"

NumRows(datasets) == Len(datasets.rows)
NumColumns(datasets) == IF datasets.rows = <<>> THEN 0 ELSE Len(datasets.rows[1])

\* C6: rmanova called with a matrix of fewer than 2 rows or fewer than 2
\* columns returns an error marker: no (F, p) pair and no exception.
C6_InvalidParameter ==
    (Returned("rmanova")
        /\ (NumRows(args.datasets) < 2 \/ NumColumns(args.datasets) < 2))
    => result.kind = "error"

\* every row holds one value in all its columns
RowsConstant(rows) == \A i \in 1..Len(rows) : AllEqual(rows[i])

\* the matrix rmanova computed on is at least 2 x 2 with constant rows
C7_Case ==
    /\ Returned("rmanova")
    /\ NumRows(args.datasets) >= 2
    /\ NumColumns(args.datasets) >= 2
    /\ RowsConstant(args.datasets.rows)

RECURSIVE SumOver(_, _, _)
SumOver(F(_), i, n) == IF i > n THEN Zero ELSE Add(F(i), SumOver(F, i + 1, n))

VarianceNumerator(pairs) ==
    LET term(i) == Mul(Sub(pairs[i][2], One), Mul(pairs[i][1], pairs[i][1]))
    IN  SumOver(term, 1, Len(pairs))

VarianceDenominator(pairs) ==
    LET term(i) == Sub(pairs[i][2], One)
    IN  SumOver(term, 1, Len(pairs))

RemoveAt(s, i) == SubSeq(s, 1, i - 1) \o SubSeq(s, i + 1, Len(s))

\* C8: pooled_std_dev returns the error marker for fewer than 2 pairs; for 2
\* or more it returns 0 when the sum of n - 1 is 0 and otherwise the principal
\* square root of sum((n - 1) * sigma^2) / sum(n - 1); appending a pair with
\* n = 1, or removing one while 2 pairs remain, does not change the result.
C8_PooledStdDev ==
    Returned("pooled_std_dev")
    => LET pairs == args.data_pairs
           num == VarianceNumerator(pairs)
           den == VarianceDenominator(pairs)
       IN  IF Len(pairs) < 2
           THEN result = Error("error: need at least two pairings to pool")
           ELSE /\ result.kind = "value"
                /\ IsZero(den) => result.v = Zero
                /\ ~IsZero(den) =>
                       /\ Sq(result.v) = Div(num, den)
                       /\ result.v.p >= 0
                /\ \A sigma \in PairSigmas :
                       pooled_std_dev(Append(pairs, <<sigma, One>>)) = result
                /\ \A i \in 1..Len(pairs) :
                       (pairs[i][2] = One /\ Len(pairs) >= 3)
                       => pooled_std_dev(RemoveAt(pairs, i)) = result

C8_Witness ==
    /\ Returned("pooled_std_dev")
    /\ Len(args.data_pairs) >= 3
    /\ \E i \in 1..Len(args.data_pairs) :
           args.data_pairs[i][2] = One /\ ~IsZero(args.data_pairs[i][1])
    /\ result.kind = "value"
    /\ ~IsZero(result.v)
    /\ ~IsRat(result.v)

\* C9: a call leaves the arguments the caller passed as they were.
C9_InputsUnchanged == [][pc = "ready" => args' = args]_vars

\* C10: for 2 or more (sigma, n) pairs with sigma >= 0 and n >= 0, the ratio
\* pooled_std_dev takes the root of is not negative when the denominator is
\* not 0, and the value returned is a real number that is not negative.
C10_NonNegativeReal ==
    (Returned("pooled_std_dev") /\ Len(args.data_pairs) >= 2)
    => LET num == VarianceNumerator(args.data_pairs)
           den == VarianceDenominator(args.data_pairs)
       IN  /\ ~IsZero(den) => Div(num, den).p >= 0
           /\ result.kind = "value"
           /\ IsReal(result.v)
           /\ result.v.p >= 0

====
